---- MODULE Spec2Model ----
(***************************************************************************)
(* State machine of NetworkOptimizer (src/optimizer.py): the per-interface *)
(* and global default dictionaries, the widgets that hold the desired      *)
(* state, and the handlers __init__, on_interface_change, apply_settings   *)
(* and reset_to_defaults.  Every subprocess call (ethtool, iw, sysctl) and *)
(* the NetworkManager file write is a capability call that either succeeds *)
(* or raises; the outcome is an input of the handler that issues it.       *)
(* Python values are written as strings: "True", "False", "None".          *)
(***************************************************************************)
EXTENDS Integers, Sequences, FiniteSets, TLC

\* ---------------------------------------------------------------- bounds
\* handlers the user triggers in one run, after the window is constructed
MaxSteps == 3
\* capability calls that fail in one run although they could succeed
MaxFaults == 2

\* ------------------------------------------------------------ environment
None == "None"
NoIface == "-"
Flags == {"tso", "gso", "gro"}
IfaceNames == {"eth0", "wlan0"}

\* what os.listdir("/sys/class/net") may return
Listings == { <<"lo">>, <<"lo", "eth0", "wlan0">>, <<"wlan0", "lo", "eth0">> }

\* an offload feature is held as the value column of its `ethtool -k` line:
\* "on", "off", "on [fixed]", "off [fixed]", or "absent" when no line is printed

\* content of /etc/NetworkManager/conf.d/default-wifi-powersave-on.conf
NmAbsent == "absent"
NmDisabled == "[connection] wifi.powersave = 2"

\* the systems the program is started on: offload features per interface,
\* radio power save per interface ("n/a" = not a wireless interface), the
\* NetworkManager file and the three kernel parameters
Wired == [offload |-> [eth0  |-> [tso |-> "on", gso |-> "on", gro |-> "on"],
                       wlan0 |-> [tso |-> "on", gso |-> "off", gro |-> "on"]],
          power |-> [eth0 |-> "n/a", wlan0 |-> "on"]]
Laptop == [offload |-> [eth0  |-> [tso |-> "off", gso |-> "on", gro |-> "off"],
                        wlan0 |-> [tso |-> "on [fixed]", gso |-> "off", gro |-> "absent"]],
           power |-> [eth0 |-> "n/a", wlan0 |-> "off"]]
SysInits ==
  { [offload |-> Wired.offload, power |-> Wired.power, nm |-> NmAbsent,
     rmem |-> "212992", wmem |-> "425984", cc |-> "cubic"],
    [offload |-> Laptop.offload, power |-> Laptop.power, nm |-> NmAbsent,
     rmem |-> "16777216", wmem |-> "4194304", cc |-> "reno"] }

\* the positions the user drags the slider to
SliderInputs == {1, 8}

\* str(n) / int(s) for the byte counts that occur
ByteText ==
  [ n \in { 212992, 425984, 16777216 } \cup { t * 524288 : t \in 1..8 } |->
      CASE n = 212992 -> "212992"
        [] n = 425984 -> "425984"
        [] n = 16777216 -> "16777216"
        [] n = 524288 -> "524288"
        [] n = 1048576 -> "1048576"
        [] n = 1572864 -> "1572864"
        [] n = 2097152 -> "2097152"
        [] n = 2621440 -> "2621440"
        [] n = 3145728 -> "3145728"
        [] n = 3670016 -> "3670016"
        [] n = 4194304 -> "4194304" ]

Str(n) == ByteText[n]
IntOf(s) == CHOOSE n \in DOMAIN ByteText : ByteText[n] = s

\* ------------------------------------------------------------ dictionaries
EmptyDict == <<>>
Get(d, k, dflt) == IF k \in DOMAIN d THEN d[k] ELSE dflt
Put(d, k, v) == (k :> v) @@ d
BoolText(b) == IF b THEN "True" ELSE "False"

VARIABLES
  pc,                    \* "start" | "warn_offload" | "ready"
  ret,                   \* the caller load_interface_settings returns to
  sys,                   \* the operating system's settings
  available_interfaces,
  current_interface,
  interface_defaults,
  global_defaults,
  tsoCheckBox, gsoCheckBox, groCheckBox,
  powerSaveCheckBox,     \* isChecked()
  powerSaveEnabled,      \* isEnabled()
  bufferSlider,
  tcpComboBox,
  op,                    \* the handler that ran last
  reads,                 \* the read capability calls of that handler
  writes,                \* its write capability calls, with their outcomes
  error_messages,        \* its error_messages list
  warnings,              \* the message boxes it raised
  hist,                  \* history: start state, capture reads, counters
  budget                 \* the handlers and the failed calls of the run so far

vars == << pc, ret, sys, available_interfaces, current_interface,
           interface_defaults, global_defaults, tsoCheckBox, gsoCheckBox,
           groCheckBox, powerSaveCheckBox, powerSaveEnabled, bufferSlider,
           tcpComboBox, op, reads, writes, error_messages, warnings, hist,
           budget >>

widgets == << tsoCheckBox, gsoCheckBox, groCheckBox, powerSaveCheckBox,
              powerSaveEnabled, bufferSlider, tcpComboBox >>

RMEM == "net.core.rmem_max"
WMEM == "net.core.wmem_max"
TCP_CC == "net.ipv4.tcp_congestion_control"

\* a read capability call, and a write capability call with its outcome
Read(cap, iface) == [cap |-> cap, iface |-> iface]
Write(cap, iface, arg, ok) == [cap |-> cap, iface |-> iface, arg |-> arg, ok |-> ok]

\* ------------------------------------------------------ load_interfaces
\* the loopback interface is not listed
load_interfaces(listing) == SelectSeq(listing, LAMBDA iface : iface # "lo")

\* ------------------------------------------- load_interface_settings
\* self.interface_defaults[interface] = ... : the other entries stay
StoreEntry_fresh(defs, interface, entry) == (interface :> entry)
StoreEntry(defs, interface, entry) == Put(defs, interface, entry)

NeedsCapture_always(interface, defaults) == TRUE
\* `interface not in self.interface_defaults`
NeedsCapture(interface, defaults) == interface \notin DOMAIN defaults

\* value.lower() == "on" on the text after the last colon of the line;
\* ethtool prints lower case, and "on [fixed]" is not "on"
ParseOffload(value) == BoolText(value = "on")

\* the keys the loop over the ethtool output sets: one per printed line
ParseEthtool(lines) ==
  [ f \in { k \in Flags : lines[k] # "absent" } |-> ParseOffload(lines[f]) ]

OffloadFailSafe_none(entry) == entry
\* "Assume defaults on if detection fails"
OffloadFailSafe(entry) == Put(Put(Put(entry, "tso", "True"), "gso", "True"), "gro", "True")

\* `iw dev <interface> get power_save` prints one of these
IwOutput(power) == IF power = "off" THEN "Power save: off" ELSE "Power save: on"

\* `"off" in output.lower()`
ParsePowerSave(output) == BoolText(output # "Power save: off")

DetectPowerSave_assumeOn(power, iwOk) ==
  IF iwOk /\ power # "n/a" THEN ParsePowerSave(IwOutput(power)) ELSE "True"
\* the power_save key: None when the command fails (e.g. not wireless)
DetectPowerSave(power, iwOk) ==
  IF iwOk /\ power # "n/a" THEN ParsePowerSave(IwOutput(power)) ELSE None

DisableToggle_same(defaults, flag) == Get(defaults, flag, "True") = "True"
\* `not defaults.get(flag, True)`
DisableToggle(defaults, flag) == Get(defaults, flag, "True") # "True"

PowerSaveApplicable_always(defaults) == TRUE
\* `defaults.get('power_save') is not None`
PowerSaveApplicable(defaults) == Get(defaults, "power_save", None) # None

\* setChecked(not defaults.get('power_save')), or setChecked(False)
PowerSaveToggle(defaults) ==
  PowerSaveApplicable(defaults) /\ Get(defaults, "power_save", None) # "True"

\* round() of Python 3: to the nearest integer, a tie to the even one
RoundHalfEven(num, den) ==
  LET q == num \div den
      r == num % den
  IN  IF 2 * r < den THEN q
      ELSE IF 2 * r > den THEN q + 1
      ELSE IF q % 2 = 0 THEN q ELSE q + 1

Max(a, b) == IF a >= b THEN a ELSE b
Min(a, b) == IF a <= b THEN a ELSE b

SliderValue_unclamped(rmem) == RoundHalfEven(IntOf(rmem), 524288)
\* max(1, min(8, int(round(int(rmem) / 1048576 / 0.5))))
SliderValue(rmem) == Max(1, Min(8, RoundHalfEven(IntOf(rmem), 524288)))

SliderAfterLoad_keep(slider, rmem, readOk) == slider
\* the slider after the rmem_max read (unchanged when the read fails)
SliderAfterLoad(slider, rmem, readOk) == IF readOk THEN SliderValue(rmem) ELSE slider

ComboItems == {"cubic", "bbr"}

ComboAfterLoad_keep(combo, cc, readOk) == combo
\* findText / setCurrentIndex (unchanged when the read fails or finds nothing)
ComboAfterLoad(combo, cc, readOk) == IF readOk /\ cc \in ComboItems THEN cc ELSE combo

\* the "Global settings" block reads rmem_max and tcp_congestion_control into
\* the slider and the combo box only: self.global_defaults is not assigned
GlobalDefaultsRefreshed(gd, s) == Put(Put(gd, RMEM, s.rmem), TCP_CC, s.cc)
GlobalDefaultsAfterLoad(gd, s) == gd

UiReads == << Read("rmem_max", NoIface), Read("tcp_congestion_control", NoIface) >>
UiWarnings(rOk, cOk) ==
  (IF rOk THEN <<>> ELSE << "buffer_read" >>) \o (IF cOk THEN <<>> ELSE << "tcp_read" >>)

\* ------------------------------------------------ load_global_defaults
\* g = the number of reads that succeed before one raises (3: none raises)
load_global_defaults(gd, s, g) ==
  IF gd = EmptyDict /\ g = 3
  THEN (RMEM :> s.rmem) @@ (WMEM :> s.wmem) @@ (TCP_CC :> s.cc)
  ELSE gd

GlobalReads(g) ==
  << Read("rmem_max", NoIface) >>
  \o (IF g >= 1 THEN << Read("wmem_max", NoIface) >> ELSE <<>>)
  \o (IF g >= 2 THEN << Read("tcp_congestion_control", NoIface) >> ELSE <<>>)

GlobalWarnings(g) == IF g = 3 THEN <<>> ELSE << "global_defaults" >>

\* what the reads of the capture returned
CaptureReads(s, g) ==
  [ k \in { x \in {RMEM, WMEM, TCP_CC} :
              \/ x = RMEM /\ g >= 1
              \/ x = WMEM /\ g >= 2
              \/ x = TCP_CC /\ g >= 3 } |->
      IF k = RMEM THEN s.rmem ELSE IF k = WMEM THEN s.wmem ELSE s.cc ]

\* ------------------------------------------------------------------ Init
\* the state before NetworkOptimizer() is constructed; the widgets hold what
\* initUI gives them
Init ==
  /\ pc = "start"
  /\ ret = NoIface
  /\ sys \in SysInits
  /\ available_interfaces = <<>>
  /\ current_interface = None
  /\ interface_defaults = EmptyDict
  /\ global_defaults = EmptyDict
  /\ tsoCheckBox = FALSE
  /\ gsoCheckBox = FALSE
  /\ groCheckBox = FALSE
  /\ powerSaveCheckBox = FALSE
  /\ powerSaveEnabled = TRUE
  /\ bufferSlider = 4
  /\ tcpComboBox = "cubic"
  /\ op = "none"
  /\ reads = <<>>
  /\ writes = <<>>
  /\ error_messages = <<>>
  /\ warnings = <<>>
  /\ hist = [sys0 |-> sys, captureReads |-> EmptyDict, globalCaptures |-> 0,
             readFailed |-> {}, powerFailed |-> {}, wasCached |-> FALSE]
  /\ budget = [steps |-> 0, faults |-> 0]

\* ------------------------------------------- load_interface_settings
\* the cost of a capability call's outcome against the run's failures
Cost(ok) == IF ok THEN 0 ELSE 1
Spend(b, n) == [b EXCEPT !.faults = @ + n]

\* the rest of __init__ after the first load_interface_settings returns: the
\* explicit call for available_interfaces[0] (its entry exists by then: the
\* combo box's currentTextChanged already loaded it when addItems filled the
\* empty box), then load_global_defaults
InitTail(s, slider, combo, rds, wrn, h, b) ==
  \E r2 \in BOOLEAN, c2 \in BOOLEAN, g \in 0..3 :
    /\ b.faults + Cost(r2) + Cost(c2) + Cost(g = 3) <= MaxFaults
    /\ bufferSlider' = SliderAfterLoad(slider, s.rmem, r2)
    /\ tcpComboBox' = ComboAfterLoad(combo, s.cc, c2)
    /\ reads' = rds \o UiReads \o GlobalReads(g)
    /\ warnings' = wrn \o UiWarnings(r2, c2) \o GlobalWarnings(g)
    /\ global_defaults' = load_global_defaults(global_defaults, s, g)
    /\ hist' = [h EXCEPT !.captureReads = CaptureReads(s, g),
                         !.globalCaptures = @ + 1]
    /\ budget' = Spend(b, Cost(r2) + Cost(c2) + Cost(g = 3))

\* __init__ when load_interfaces found no interface: load_global_defaults only
InitGlobalOnly(s, wrn, h, b) ==
  \E g \in 0..3 :
    /\ b.faults + Cost(g = 3) <= MaxFaults
    /\ reads' = GlobalReads(g)
    /\ warnings' = wrn \o GlobalWarnings(g)
    /\ global_defaults' = load_global_defaults(global_defaults, s, g)
    /\ hist' = [h EXCEPT !.captureReads = CaptureReads(s, g),
                         !.globalCaptures = @ + 1]
    /\ budget' = Spend(b, Cost(g = 3))

\* "Update UI based on detected settings" and "Global settings", then the
\* return to the caller r
FinishLoad(s, interface, defs, r, rds, wrn, h, b) ==
  \E rOk \in BOOLEAN, cOk \in BOOLEAN :
    LET defaults == defs[interface]
        slider == SliderAfterLoad(bufferSlider, s.rmem, rOk)
        combo == ComboAfterLoad(tcpComboBox, s.cc, cOk)
        rds1 == rds \o UiReads
        wrn1 == wrn \o UiWarnings(rOk, cOk)
        b1 == Spend(b, Cost(rOk) + Cost(cOk))
    IN  /\ b1.faults <= MaxFaults
        /\ interface_defaults' = defs
        /\ tsoCheckBox' = DisableToggle(defaults, "tso")
        /\ gsoCheckBox' = DisableToggle(defaults, "gso")
        /\ groCheckBox' = DisableToggle(defaults, "gro")
        /\ powerSaveEnabled' = PowerSaveApplicable(defaults)
        /\ powerSaveCheckBox' = PowerSaveToggle(defaults)
        /\ pc' = "ready"
        /\ ret' = NoIface
        /\ IF r = "init"
           THEN InitTail(s, slider, combo, rds1, wrn1, h, b1)
           ELSE /\ bufferSlider' = slider
                /\ tcpComboBox' = combo
                /\ reads' = rds1
                /\ warnings' = wrn1
                /\ hist' = h
                /\ budget' = b1
                /\ global_defaults' = GlobalDefaultsAfterLoad(global_defaults, s)

\* the ethtool read raised: QMessageBox.warning is on screen, the entry of
\* the interface is the empty dictionary it was created as
OffloadWarning(interface, r, rds, wrn, h, b) ==
  /\ b.faults + 1 <= MaxFaults
  /\ pc' = "warn_offload"
  /\ ret' = r
  /\ interface_defaults' = StoreEntry(interface_defaults, interface, EmptyDict)
  /\ reads' = rds
  /\ warnings' = wrn \o << "offload_read" >>
  /\ hist' = [h EXCEPT !.readFailed = @ \cup {interface}]
  /\ budget' = Spend(b, 1)
  /\ UNCHANGED << widgets, global_defaults >>

PowerSaveRead(interface) == Read("power_save", interface)
OffloadRead(interface) == Read("offload", interface)

\* iw fails on an interface that is not wireless, and may fail on one that is
IwOutcomes(power) == IF power = "n/a" THEN {FALSE} ELSE BOOLEAN
IwCost(power, iwOk) == IF power = "n/a" THEN 0 ELSE Cost(iwOk)

\* history: the interfaces whose `iw ... get power_save` raised
IwSeen(h, interface, iwOk) ==
  IF iwOk THEN h ELSE [h EXCEPT !.powerFailed = @ \cup {interface}]

load_interface_settings(s, interface, r, rds, wrn, h, b) ==
  /\ current_interface' = interface
  /\ IF NeedsCapture(interface, interface_defaults)
     THEN \E ethOk \in BOOLEAN :
            IF ethOk
            THEN \E iwOk \in IwOutcomes(s.power[interface]) :
                   FinishLoad(s, interface,
                     StoreEntry(interface_defaults, interface,
                         Put(ParseEthtool(s.offload[interface]), "power_save",
                             DetectPowerSave(s.power[interface], iwOk))),
                     r, rds \o << OffloadRead(interface), PowerSaveRead(interface) >>,
                     wrn, IwSeen(h, interface, iwOk),
                     Spend(b, IwCost(s.power[interface], iwOk)))
            ELSE OffloadWarning(interface, r, rds \o << OffloadRead(interface) >>, wrn, h, b)
     ELSE FinishLoad(s, interface, interface_defaults, r, rds, wrn, h, b)

\* the user closes the warning: the fail-safe flags are stored, and
\* load_interface_settings goes on with the power-save read
DismissOffloadWarning ==
  /\ pc = "warn_offload"
  /\ \E iwOk \in IwOutcomes(sys.power[current_interface]) :
       FinishLoad(sys, current_interface,
         StoreEntry(interface_defaults, current_interface,
             Put(OffloadFailSafe(interface_defaults[current_interface]), "power_save",
                 DetectPowerSave(sys.power[current_interface], iwOk))),
         ret, reads \o << PowerSaveRead(current_interface) >>, warnings,
         IwSeen(hist, current_interface, iwOk),
         Spend(budget, IwCost(sys.power[current_interface], iwOk)))
  /\ UNCHANGED << sys, available_interfaces, current_interface, op, writes,
                  error_messages >>

\* ---------------------------------------------------------------- __init__
Construct ==
  /\ pc = "start"
  /\ \E listing \in Listings, listOk \in BOOLEAN :
       LET avail == IF listOk THEN load_interfaces(listing) ELSE <<>>
           wrn == IF listOk THEN <<>> ELSE << "list_interfaces" >>
           b == Spend(budget, Cost(listOk))
       IN  /\ available_interfaces' = avail
           /\ IF avail # <<>>
              THEN load_interface_settings(sys, avail[1], "init", <<>>, wrn, hist, b)
              ELSE /\ InitGlobalOnly(sys, wrn, hist, b)
                   /\ pc' = "ready"
                   /\ UNCHANGED << ret, current_interface, interface_defaults, widgets >>
  /\ op' = "init"
  /\ UNCHANGED << sys, writes, error_messages >>

\* ---------------------------------------------------- on_interface_change
\* currentTextChanged: the user picks another entry of the combo box
on_interface_change(interface) ==
  /\ pc = "ready"
  /\ budget.steps < MaxSteps
  /\ \E n \in DOMAIN available_interfaces : available_interfaces[n] = interface
  /\ interface # current_interface
  /\ load_interface_settings(sys, interface, "select", <<>>, <<>>,
       [hist EXCEPT !.wasCached = interface \in DOMAIN interface_defaults],
       [budget EXCEPT !.steps = @ + 1])
  /\ op' = "select"
  /\ writes' = <<>>
  /\ error_messages' = <<>>
  /\ UNCHANGED << sys, available_interfaces >>

\* ------------------------------------------------- capability writes
WriteCaps == Flags \cup {"power_save", "nm_conf", "rmem_max", "wmem_max",
                         "tcp_congestion_control"}

\* ethtool -K cannot change a fixed feature or one the driver does not list
OffloadWritable(value, arg) ==
  CASE value = "absent" -> FALSE
    [] value = "on [fixed]" -> arg = "on"
    [] value = "off [fixed]" -> arg = "off"
    [] OTHER -> TRUE

\* whether the write w can succeed on the system s; the kernel takes no
\* parameter value "None"
Writable(s, w) ==
  CASE w.cap \in Flags -> OffloadWritable(s.offload[w.iface][w.cap], w.arg)
    [] w.cap = "power_save" -> s.power[w.iface] # "n/a"
    [] w.cap = "nm_conf" -> TRUE
    [] OTHER -> w.arg # None

\* the system after the write w
Effect(s, w) ==
  IF ~w.ok THEN s
  ELSE CASE w.cap \in Flags ->
              IF s.offload[w.iface][w.cap] \in {"on", "off"}
              THEN [s EXCEPT !.offload[w.iface][w.cap] = w.arg]
              ELSE s
         [] w.cap = "power_save" -> [s EXCEPT !.power[w.iface] = w.arg]
         [] w.cap = "nm_conf" -> [s EXCEPT !.nm = w.arg]
         [] w.cap = "rmem_max" -> [s EXCEPT !.rmem = w.arg]
         [] w.cap = "wmem_max" -> [s EXCEPT !.wmem = w.arg]
         [] w.cap = "tcp_congestion_control" -> [s EXCEPT !.cc = w.arg]

RECURSIVE RunWrites(_, _)
RunWrites(s, ws) == IF ws = <<>> THEN s ELSE RunWrites(Effect(s, Head(ws)), Tail(ws))

Caps(ws) == { ws[n].cap : n \in DOMAIN ws }

Target_first(cap, interface) ==
  IF cap \in Flags \cup {"power_save"} THEN available_interfaces[1] ELSE NoIface
\* the interface a write addresses
Target(cap, interface) == IF cap \in Flags \cup {"power_save"} THEN interface ELSE NoIface

\* the sets of writes that fail in one handler although they could succeed
FaultSets == [ k \in 0..(MaxFaults + 1) |->
               { F \in SUBSET WriteCaps : Cardinality(F) <= k } ]
FaultChoices(b) == FaultSets[IF b.faults >= MaxFaults THEN 0 ELSE MaxFaults - b.faults]

AllOk == [ c \in WriteCaps |-> TRUE ]

\* F holds only writes that are issued and could have succeeded
Fits(s, ws, F) == \A c \in F : \E n \in DOMAIN ws : ws[n].cap = c /\ Writable(s, ws[n])

\* ---------------------------------------------------------- apply_settings
ApplyOffloadArg_inverted(checked) == IF checked THEN "on" ELSE "off"
\* "off" when the Disable box is checked, "on" otherwise
ApplyOffloadArg(checked) == IF checked THEN "off" ELSE "on"

FallbackWanted_always(checked) == TRUE
\* the fallback branch: `if self.powerSaveCheckBox.isChecked()`
FallbackWanted(checked) == checked

\* int(self.bufferSlider.value() * 0.5 * 1048576)
BufferValue(tier) == tier * 524288

\* the argument of each write of apply_settings
ApplyArg(cap) ==
  CASE cap = "tso" -> ApplyOffloadArg(tsoCheckBox)
    [] cap = "gso" -> ApplyOffloadArg(gsoCheckBox)
    [] cap = "gro" -> ApplyOffloadArg(groCheckBox)
    [] cap = "power_save" -> ApplyOffloadArg(powerSaveCheckBox)
    [] cap = "nm_conf" -> NmDisabled
    [] cap = "rmem_max" -> Str(BufferValue(bufferSlider))
    [] cap = "wmem_max" -> Str(BufferValue(bufferSlider))
    [] cap = "tcp_congestion_control" -> tcpComboBox

ApplyCall(cap, interface, ok) == Write(cap, Target(cap, interface), ApplyArg(cap), ok[cap])

ApplyOffloadWrites(interface, ok) ==
  << ApplyCall("tso", interface, ok), ApplyCall("gso", interface, ok),
     ApplyCall("gro", interface, ok) >>

ApplyPowerSaveWrites(interface, ok) ==
  IF powerSaveEnabled
  THEN << ApplyCall("power_save", interface, ok) >>
       \o (IF ~ok["power_save"] /\ FallbackWanted(powerSaveCheckBox)
           THEN << ApplyCall("nm_conf", interface, ok) >>
           ELSE <<>>)
  ELSE <<>>

\* both sysctl calls share one try block
ApplyBufferWrites(interface, ok) ==
  << ApplyCall("rmem_max", interface, ok) >>
  \o (IF ok["rmem_max"] THEN << ApplyCall("wmem_max", interface, ok) >> ELSE <<>>)

ApplyWrites_stopOnError(interface, ok) ==
  ApplyOffloadWrites(interface, ok)
  \o ApplyPowerSaveWrites(interface, ok)
  \o ApplyBufferWrites(interface, ok)
  \o (IF ok["rmem_max"] /\ ok["wmem_max"]
      THEN << ApplyCall("tcp_congestion_control", interface, ok) >>
      ELSE <<>>)
\* the four blocks of apply_settings, in order
ApplyWrites(interface, ok) ==
  ApplyOffloadWrites(interface, ok)
  \o ApplyPowerSaveWrites(interface, ok)
  \o ApplyBufferWrites(interface, ok)
  \o << ApplyCall("tcp_congestion_control", interface, ok) >>

Failed(field, ok) == IF ok[field] THEN <<>> ELSE << field >>

\* the two reasons the power-save block of apply_settings reports
PowerSaveFailed == "power_save"
FallbackFailed == "power_save (fallback via NM config also failed)"

ApplyPowerSaveErrors_primary(ok) ==
  IF ~powerSaveEnabled \/ ok["power_save"] THEN <<>> ELSE << PowerSaveFailed >>
\* the message of the power-save block of apply_settings
ApplyPowerSaveErrors(ok) ==
  IF ~powerSaveEnabled \/ ok["power_save"] THEN <<>>
  ELSE IF FallbackWanted(powerSaveCheckBox)
       THEN (IF ok["nm_conf"] THEN <<>> ELSE << FallbackFailed >>)
       ELSE << PowerSaveFailed >>

BufferErrors(ok) ==
  IF ok["rmem_max"] /\ ok["wmem_max"] THEN <<>> ELSE << "buffer_sizes" >>

ApplyErrors(ok) ==
  Failed("tso", ok) \o Failed("gso", ok) \o Failed("gro", ok)
  \o ApplyPowerSaveErrors(ok) \o BufferErrors(ok)
  \o Failed("tcp_congestion_control", ok)

\* the final message box
Feedback(errors) == IF errors = <<>> THEN << "success" >> ELSE << "errors_occurred" >>

NoInterfaceWrites_globals(ok) ==
  << Write("rmem_max", NoIface, Str(BufferValue(bufferSlider)), ok["rmem_max"]),
     Write("wmem_max", NoIface, Str(BufferValue(bufferSlider)), ok["wmem_max"]),
     Write("tcp_congestion_control", NoIface, tcpComboBox, ok["tcp_congestion_control"]) >>
\* `if not interface:` warning, then `return`: no write of any block is reached
NoInterfaceWrites(ok) == <<>>

apply_settings ==
  /\ pc = "ready"
  /\ budget.steps < MaxSteps
  /\ op' = "apply"
  /\ reads' = <<>>
  /\ IF current_interface = None
     THEN /\ warnings' = << "no_interface" >>
          /\ writes' = NoInterfaceWrites(AllOk)
          /\ error_messages' = <<>>
          /\ sys' = sys
          /\ budget' = [budget EXCEPT !.steps = @ + 1]
     ELSE \E F \in FaultChoices(budget) :
            LET ok == [ c \in WriteCaps |->
                        c \notin F /\ Writable(sys, ApplyCall(c, current_interface, AllOk)) ]
                ws == ApplyWrites(current_interface, ok)
            IN  /\ Fits(sys, ws, F)
                /\ writes' = ws
                /\ error_messages' = ApplyErrors(ok)
                /\ warnings' = Feedback(ApplyErrors(ok))
                /\ sys' = RunWrites(sys, ws)
                /\ budget' = [budget EXCEPT !.steps = @ + 1,
                                            !.faults = @ + Cardinality(F)]
  /\ UNCHANGED << pc, ret, available_interfaces, current_interface,
                  interface_defaults, global_defaults, widgets, hist >>

\* -------------------------------------------------------- reset_to_defaults
\* "on" if defaults.get(key, True) else "off"
ResetOffloadArg(defaults, key) == IF Get(defaults, key, "True") = "True" THEN "on" ELSE "off"

\* "on" if defaults.get('power_save') else "off"
ResetPowerSaveArg(defaults) == IF Get(defaults, "power_save", None) = "True" THEN "on" ELSE "off"

\* the text an f-string gives self.global_defaults.get(key)
GlobalText(gd, key) == Get(gd, key, None)

\* the argument of each write of reset_to_defaults
ResetArg(cap, defaults, gd) ==
  CASE cap \in Flags -> ResetOffloadArg(defaults, cap)
    [] cap = "power_save" -> ResetPowerSaveArg(defaults)
    [] cap = "rmem_max" -> GlobalText(gd, RMEM)
    [] cap = "wmem_max" -> GlobalText(gd, WMEM)
    [] cap = "tcp_congestion_control" -> GlobalText(gd, TCP_CC)
    [] OTHER -> None

ResetCall(cap, interface, defaults, gd, ok) ==
  Write(cap, Target(cap, interface), ResetArg(cap, defaults, gd), ok[cap])

ResetOffloadWrites(interface, defaults, gd, ok) ==
  << ResetCall("tso", interface, defaults, gd, ok),
     ResetCall("gso", interface, defaults, gd, ok),
     ResetCall("gro", interface, defaults, gd, ok) >>

ResetPowerSaveWrites(interface, defaults, gd, ok) ==
  IF PowerSaveApplicable(defaults)
  THEN << ResetCall("power_save", interface, defaults, gd, ok) >>
  ELSE <<>>

\* both sysctl calls share one try block
ResetBufferWrites(interface, defaults, gd, ok) ==
  << ResetCall("rmem_max", interface, defaults, gd, ok) >>
  \o (IF ok["rmem_max"]
      THEN << ResetCall("wmem_max", interface, defaults, gd, ok) >>
      ELSE <<>>)

ResetWrites(interface, defaults, gd, ok) ==
  ResetOffloadWrites(interface, defaults, gd, ok)
  \o ResetPowerSaveWrites(interface, defaults, gd, ok)
  \o ResetBufferWrites(interface, defaults, gd, ok)
  \o << ResetCall("tcp_congestion_control", interface, defaults, gd, ok) >>

ResetPowerSaveErrors(defaults, ok) ==
  IF PowerSaveApplicable(defaults) THEN Failed("power_save", ok) ELSE <<>>

ResetErrors(defaults, ok) ==
  Failed("tso", ok) \o Failed("gso", ok) \o Failed("gro", ok)
  \o ResetPowerSaveErrors(defaults, ok) \o BufferErrors(ok)
  \o Failed("tcp_congestion_control", ok)

reset_to_defaults ==
  /\ pc = "ready"
  /\ budget.steps < MaxSteps
  /\ op' = "reset"
  /\ IF current_interface = None
     THEN /\ warnings' = << "no_interface" >>
          /\ reads' = <<>>
          /\ writes' = NoInterfaceWrites(AllOk)
          /\ error_messages' = <<>>
          /\ sys' = sys
          /\ budget' = [budget EXCEPT !.steps = @ + 1]
          /\ UNCHANGED << pc, ret, current_interface, interface_defaults,
                          global_defaults, widgets, hist >>
     ELSE \E F \in FaultChoices(budget) :
            LET defaults == Get(interface_defaults, current_interface, EmptyDict)
                ok == [ c \in WriteCaps |->
                        c \notin F /\ Writable(sys, ResetCall(c, current_interface,
                                                     defaults, global_defaults, AllOk)) ]
                ws == ResetWrites(current_interface, defaults, global_defaults, ok)
                errors == ResetErrors(defaults, ok)
                b == [budget EXCEPT !.steps = @ + 1, !.faults = @ + Cardinality(F)]
            IN  /\ Fits(sys, ws, F)
                /\ writes' = ws
                /\ error_messages' = errors
                /\ sys' = RunWrites(sys, ws)
                /\ IF errors = <<>>
                   THEN \* "Reload the settings to update the UI"
                        load_interface_settings(RunWrites(sys, ws), current_interface,
                          "reset", <<>>, Feedback(errors), hist, b)
                   ELSE /\ reads' = <<>>
                        /\ warnings' = Feedback(errors)
                        /\ budget' = b
                        /\ UNCHANGED << pc, ret, current_interface, interface_defaults,
                                        global_defaults, widgets, hist >>
  /\ UNCHANGED available_interfaces

\* ------------------------------------------------------------ user edits
Edit ==
  /\ pc = "ready"
  /\ budget.steps < MaxSteps
  /\ op' = "edit"
  /\ reads' = <<>>
  /\ writes' = <<>>
  /\ error_messages' = <<>>
  /\ warnings' = <<>>
  /\ budget' = [budget EXCEPT !.steps = @ + 1]
  /\ UNCHANGED << pc, ret, sys, available_interfaces, current_interface,
                  interface_defaults, global_defaults, hist >>

ToggleTso ==
  /\ Edit
  /\ tsoCheckBox' = ~tsoCheckBox
  /\ UNCHANGED << gsoCheckBox, groCheckBox, powerSaveCheckBox, powerSaveEnabled,
                  bufferSlider, tcpComboBox >>

ToggleGso ==
  /\ Edit
  /\ gsoCheckBox' = ~gsoCheckBox
  /\ UNCHANGED << tsoCheckBox, groCheckBox, powerSaveCheckBox, powerSaveEnabled,
                  bufferSlider, tcpComboBox >>

ToggleGro ==
  /\ Edit
  /\ groCheckBox' = ~groCheckBox
  /\ UNCHANGED << tsoCheckBox, gsoCheckBox, powerSaveCheckBox, powerSaveEnabled,
                  bufferSlider, tcpComboBox >>

\* a disabled check box takes no click
TogglePowerSave ==
  /\ Edit
  /\ powerSaveEnabled
  /\ powerSaveCheckBox' = ~powerSaveCheckBox
  /\ UNCHANGED << tsoCheckBox, gsoCheckBox, groCheckBox, powerSaveEnabled,
                  bufferSlider, tcpComboBox >>

\* setMinimum(1), setMaximum(8)
MoveSlider(value) ==
  /\ Edit
  /\ value \in SliderInputs
  /\ value # bufferSlider
  /\ bufferSlider' = value
  /\ UNCHANGED << tsoCheckBox, gsoCheckBox, groCheckBox, powerSaveCheckBox,
                  powerSaveEnabled, tcpComboBox >>

ChooseTcp(algorithm) ==
  /\ Edit
  /\ algorithm \in ComboItems
  /\ algorithm # tcpComboBox
  /\ tcpComboBox' = algorithm
  /\ UNCHANGED << tsoCheckBox, gsoCheckBox, groCheckBox, powerSaveCheckBox,
                  powerSaveEnabled, bufferSlider >>

Next ==
  \/ Construct
  \/ DismissOffloadWarning
  \/ \E interface \in IfaceNames : on_interface_change(interface)
  \/ ToggleTso
  \/ ToggleGso
  \/ ToggleGro
  \/ TogglePowerSave
  \/ \E value \in SliderInputs : MoveSlider(value)
  \/ \E algorithm \in ComboItems : ChooseTcp(algorithm)
  \/ apply_settings
  \/ reset_to_defaults

Spec == Init /\ [][Next]_vars

\* ------------------------------------------------------------- properties
Selected == current_interface # None
Snapshot == interface_defaults[current_interface]
Issued(cap) == \E n \in DOMAIN writes : writes[n].cap = cap
Succeeded(cap) == \E n \in DOMAIN writes : writes[n].cap = cap /\ writes[n].ok
FailedWrite(cap) == \E n \in DOMAIN writes : writes[n].cap = cap /\ ~writes[n].ok
Reported(reason) == \E n \in DOMAIN error_messages : error_messages[n] = reason
Box(flag) ==
  CASE flag = "tso" -> tsoCheckBox
    [] flag = "gso" -> gsoCheckBox
    [] flag = "gro" -> groCheckBox

\* C1: every write reset issues carries the snapshot: an offload flag and
\* power save are written "on" exactly when the snapshot value of the selected
\* interface is true, and each kernel parameter that was read at the global
\* capture is written with the string that read returned.
C1_ResetWritesSnapshot ==
  (op = "reset" /\ Selected) =>
    \A n \in DOMAIN writes :
      LET w == writes[n]
      IN  /\ w.cap \in Flags =>
               /\ w.iface = current_interface
               /\ (w.arg = "on") <=> (Get(Snapshot, w.cap, "True") = "True")
          /\ w.cap = "power_save" =>
               /\ w.iface = current_interface
               /\ (w.arg = "on") <=> (Get(Snapshot, "power_save", None) = "True")
          /\ (w.cap = "rmem_max" /\ RMEM \in DOMAIN hist.captureReads) =>
               w.arg = hist.captureReads[RMEM]
          /\ (w.cap = "wmem_max" /\ WMEM \in DOMAIN hist.captureReads) =>
               w.arg = hist.captureReads[WMEM]
          /\ (w.cap = "tcp_congestion_control" /\ TCP_CC \in DOMAIN hist.captureReads) =>
               w.arg = hist.captureReads[TCP_CC]

\* C2: after a reset in which every write succeeded, on an interface whose
\* offload flags were observed at its capture, everything apply writes is as it
\* was at program start: the interface's offload flags and power save, the
\* NetworkManager file, rmem_max, wmem_max and the congestion algorithm.
C2_ResetRestoresStart ==
  (op = "reset" /\ Selected /\ error_messages = <<>>
     /\ current_interface \notin hist.readFailed) =>
    /\ sys.offload[current_interface] = hist.sys0.offload[current_interface]
    /\ sys.power[current_interface] = hist.sys0.power[current_interface]
    /\ sys.nm = hist.sys0.nm
    /\ sys.rmem = hist.sys0.rmem
    /\ sys.wmem = hist.sys0.wmem
    /\ sys.cc = hist.sys0.cc

\* C3 as stated: the selection of an interface that has a cached snapshot
\* issues no read capability call at all.
C3_NoReadWhenCached ==
  (op = "select" /\ hist.wasCached) => reads = <<>>

\* C3 as amended: the selection of an interface that has a cached snapshot
\* issues no offload and no power-save read, only the two reads of rmem_max and
\* tcp_congestion_control that every selection makes; the first selection of
\* an interface starts with the offload read of that interface.
C3_NoInterfaceReadWhenCached ==
  /\ (op = "select" /\ hist.wasCached) => reads = UiReads
  /\ (op = "select" /\ ~hist.wasCached) =>
       /\ reads[1] = OffloadRead(current_interface)
       /\ \A n \in DOMAIN reads :
            reads[n].cap \in {"offload", "power_save"} => reads[n].iface = current_interface

\* the first interface of the list is selected again, after another one
C3_Witness ==
  /\ op = "select"
  /\ hist.wasCached
  /\ current_interface = available_interfaces[1]
  /\ Cardinality(DOMAIN interface_defaults) = 2

\* C4: an entry of interface_defaults whose capture is complete (its last
\* key, power_save, is set) is neither changed nor removed by any step.
C4_SnapshotNeverChanges ==
  [][\A i \in DOMAIN interface_defaults :
       "power_save" \in DOMAIN interface_defaults[i] =>
         /\ i \in DOMAIN interface_defaults'
         /\ interface_defaults'[i] = interface_defaults[i]]_vars

\* a reset went through with two interfaces captured, one of them by a select
C4_Witness ==
  /\ op = "reset"
  /\ Selected
  /\ error_messages = <<>>
  /\ Cardinality(DOMAIN interface_defaults) = 2

\* C5: the global snapshot is captured at most once, by __init__ and so before
\* any handler of the window runs, and no later step changes global_defaults.
C5_GlobalSnapshotOnce ==
  /\ [](/\ hist.globalCaptures <= 1
        /\ pc = "ready" => hist.globalCaptures = 1)
  /\ [][global_defaults' # global_defaults =>
          /\ op' = "init"
          /\ global_defaults = EmptyDict
          /\ hist.globalCaptures = 0
          /\ budget.steps = 0]_vars

\* apply has changed rmem_max and the captured value is still the old one
C5_Witness ==
  /\ op = "apply"
  /\ RMEM \in DOMAIN global_defaults
  /\ sys.rmem # global_defaults[RMEM]
  /\ hist.globalCaptures = 1

\* C6: apply attempts every write whatever the outcomes of the others: the
\* three offload writes, the power-save write when the control is enabled,
\* both buffer writes and the congestion-algorithm write.
C6_ApplyAttemptsEveryWrite ==
  (op = "apply" /\ Selected) =>
    /\ \A f \in Flags : Issued(f)
    /\ powerSaveEnabled => Issued("power_save")
    /\ Issued("rmem_max")
    /\ Issued("wmem_max")
    /\ Issued("tcp_congestion_control")

\* C7: reset attempts every write whatever the outcomes of the others: the
\* three offload writes, the power-save write when the snapshot has one, and
\* the write of every global field that was captured.
C7_ResetAttemptsEveryWrite ==
  (op = "reset" /\ Selected) =>
    /\ \A f \in Flags : Issued(f)
    /\ PowerSaveApplicable(Snapshot) => Issued("power_save")
    /\ RMEM \in DOMAIN global_defaults => Issued("rmem_max")
    /\ WMEM \in DOMAIN global_defaults => Issued("wmem_max")
    /\ TCP_CC \in DOMAIN global_defaults => Issued("tcp_congestion_control")

\* C8: apply issues one write per offload flag, on the selected interface,
\* "off" when the flag's Disable box is checked and "on" otherwise, and reports
\* a failure for exactly the flags whose write failed.
C8_ApplyOffloadPerFlag ==
  (op = "apply" /\ Selected) =>
    \A f \in Flags :
      /\ Cardinality({ n \in DOMAIN writes : writes[n].cap = f }) = 1
      /\ \A n \in DOMAIN writes :
           writes[n].cap = f =>
             /\ writes[n].iface = current_interface
             /\ writes[n].arg = (IF Box(f) THEN "off" ELSE "on")
             /\ Reported(f) <=> ~writes[n].ok

\* TSO disabled and GSO not: the TSO write failed, the GSO write went through,
\* and TSO is the only failure reported
C8_Witness ==
  /\ op = "apply"
  /\ Selected
  /\ tsoCheckBox
  /\ ~gsoCheckBox
  /\ FailedWrite("tso")
  /\ Succeeded("gso")
  /\ error_messages = << "tso" >>

\* C9: apply writes the NetworkManager file exactly when the power-save control
\* is enabled, its box is checked (disable power save) and the iw write failed;
\* with the box unchecked a failed iw write is reported as the primary failure
\* and nothing else is tried.
C9_FallbackOnlyWhenDisabling ==
  (op = "apply" /\ Selected) =>
    /\ Issued("nm_conf") <=>
         (powerSaveEnabled /\ powerSaveCheckBox /\ FailedWrite("power_save"))
    /\ (powerSaveEnabled /\ ~powerSaveCheckBox /\ FailedWrite("power_save")) =>
         /\ Reported(PowerSaveFailed)
         /\ ~Reported(FallbackFailed)

\* enabling power save failed
C9_Witness ==
  /\ op = "apply"
  /\ Selected
  /\ powerSaveEnabled
  /\ ~powerSaveCheckBox
  /\ FailedWrite("power_save")

PowerSaveReports ==
  SelectSeq(error_messages, LAMBDA m : m \in {PowerSaveFailed, FallbackFailed})

\* C10: apply records no power-save failure when the iw write succeeds or when
\* it fails and the NetworkManager file is written; when both fail it records
\* one failure, with the fallback reason, which is not the primary reason.
C10_PowerSaveOutcome ==
  (op = "apply" /\ Selected /\ powerSaveEnabled) =>
    /\ (Succeeded("power_save") \/ (FailedWrite("power_save") /\ Succeeded("nm_conf"))) =>
         PowerSaveReports = <<>>
    /\ (FailedWrite("power_save") /\ FailedWrite("nm_conf")) =>
         /\ PowerSaveReports = << FallbackFailed >>
         /\ FallbackFailed # PowerSaveFailed

\* the iw write and the file write both failed
C10_Witness ==
  /\ op = "apply"
  /\ Selected
  /\ FailedWrite("power_save")
  /\ FailedWrite("nm_conf")

Warned(kind) == \E n \in DOMAIN warnings : warnings[n] = kind

\* C11: when the snapshot of the selected interface has power_save = None,
\* apply and reset issue no power-save write and no NetworkManager file write
\* and report no power-save failure, whatever interfaces were selected before.
C11_NoPowerSaveWhenNotApplicable ==
  (op \in {"apply", "reset"} /\ Selected
     /\ Get(Snapshot, "power_save", None) = None) =>
    /\ ~Issued("power_save")
    /\ ~Issued("nm_conf")
    /\ PowerSaveReports = <<>>

\* apply on eth0 (no power save) after wlan0, which has it, was the selected one
C11_Witness ==
  /\ op = "apply"
  /\ current_interface = "eth0"
  /\ writes # <<>>
  /\ "wlan0" \in DOMAIN interface_defaults
  /\ Get(interface_defaults["wlan0"], "power_save", None) \in {"True", "False"}

\* C12: when the snapshot's power_save is false and the iw write of reset
\* fails, reset writes the NetworkManager file, and a file write that succeeds
\* leaves no power-save failure in the report.
C12_ResetFallback ==
  (op = "reset" /\ Selected /\ Get(Snapshot, "power_save", None) = "False"
     /\ FailedWrite("power_save")) =>
    /\ Issued("nm_conf")
    /\ Succeeded("nm_conf") => PowerSaveReports = <<>>

\* C13: reset writes a kernel parameter only when global_defaults holds it,
\* and never with the placeholder text of a missing value.
C13_ResetSkipsUncaptured ==
  (op = "reset" /\ Selected) =>
    \A n \in DOMAIN writes :
      LET w == writes[n]
      IN  /\ w.cap = "rmem_max" => (RMEM \in DOMAIN global_defaults /\ w.arg # None)
          /\ w.cap = "wmem_max" => (WMEM \in DOMAIN global_defaults /\ w.arg # None)
          /\ w.cap = "tcp_congestion_control" =>
               (TCP_CC \in DOMAIN global_defaults /\ w.arg # None)

\* C14: after the global capture, every parameter whose read succeeded is in
\* global_defaults with the value read, whatever happened to the other reads,
\* and a failed read has raised a warning.
C14_GlobalCapturePerField ==
  hist.globalCaptures = 1 =>
    /\ \A k \in DOMAIN hist.captureReads :
         /\ k \in DOMAIN global_defaults
         /\ global_defaults[k] = hist.captureReads[k]
    /\ (op = "init" /\ DOMAIN hist.captureReads # {RMEM, WMEM, TCP_CC}) =>
         Warned("global_defaults")

\* C15: an interface whose offload read failed has an entry; once its capture
\* is over the entry holds tso, gso and gro true and a power_save value; the
\* handler that captured it raised the warning and went on to the power-save
\* read.
C15_OffloadReadFailSafe ==
  \A i \in hist.readFailed :
    /\ i \in DOMAIN interface_defaults
    /\ (pc = "ready" \/ i # current_interface) =>
         /\ \A f \in Flags : Get(interface_defaults[i], f, None) = "True"
         /\ "power_save" \in DOMAIN interface_defaults[i]
    /\ (i = current_interface /\ op \in {"init", "select"} /\ ~hist.wasCached) =>
         /\ Warned("offload_read")
         /\ (pc = "ready" => \E n \in DOMAIN reads : reads[n] = PowerSaveRead(i))

\* the first selection of an interface whose offload read failed has returned
C15_Witness ==
  /\ pc = "ready"
  /\ op = "select"
  /\ ~hist.wasCached
  /\ current_interface \in hist.readFailed

\* C16: an interface whose power-save read failed has power_save = None in its
\* entry, and while it is the selected interface the power-save check box is
\* disabled and unchecked.
C16_PowerSaveReadFailed ==
  \A i \in hist.powerFailed :
    /\ i \in DOMAIN interface_defaults
    /\ Get(interface_defaults[i], "power_save", "unset") = None
    /\ i = current_interface => (~powerSaveEnabled /\ ~powerSaveCheckBox)

\* a wireless interface whose iw read failed is selected for the second time
C16_Witness ==
  /\ op = "select"
  /\ hist.wasCached
  /\ current_interface = "wlan0"
  /\ "wlan0" \in hist.powerFailed
  /\ sys.power["wlan0"] # "n/a"

\* C17: the slider is within 1..8 in every state, and the byte count apply
\* writes to rmem_max and wmem_max is the slider value times 524288: 2097152
\* for 4 and 4194304 for 8.
C17_BufferTier ==
  /\ bufferSlider \in 1..8
  /\ (op = "apply" /\ Selected) =>
       \A n \in DOMAIN writes :
         writes[n].cap \in {"rmem_max", "wmem_max"} =>
           /\ IntOf(writes[n].arg) = bufferSlider * 524288
           /\ bufferSlider = 4 => writes[n].arg = "2097152"
           /\ bufferSlider = 8 => writes[n].arg = "4194304"

\* the kernel held 16 MB: the slider was clamped to 8 and apply wrote both
C17_Witness ==
  /\ op = "apply"
  /\ budget.steps = 1
  /\ hist.sys0.rmem = "16777216"
  /\ bufferSlider = 8
  /\ Succeeded("rmem_max")
  /\ Succeeded("wmem_max")

\* C18 as stated: the selection of another interface leaves the slider and
\* the congestion combo box as they were.
C18_SwitchKeepsGlobals ==
  [][(op' = "select" /\ current_interface' # current_interface) =>
       /\ bufferSlider' = bufferSlider
       /\ tcpComboBox' = tcpComboBox]_vars

\* C18 as amended: the selection of another interface sets the slider to the
\* tier of the kernel's rmem_max and the combo box to the kernel's congestion
\* algorithm when it is one of the items; each is kept only when its read
\* failed (a warning is raised) or the algorithm is not an item.
C18_SwitchRefreshesGlobals ==
  [][(op' = "select" /\ pc' = "ready"
        /\ (current_interface' # current_interface \/ pc = "warn_offload")) =>
       /\ bufferSlider' =
            IF \E n \in DOMAIN warnings' : warnings'[n] = "buffer_read"
            THEN bufferSlider
            ELSE SliderValue(sys'.rmem)
       /\ tcpComboBox' =
            IF (\E n \in DOMAIN warnings' : warnings'[n] = "tcp_read")
               \/ sys'.cc \notin ComboItems
            THEN tcpComboBox
            ELSE sys'.cc]_vars

\* another interface was selected after apply changed rmem_max, and the slider
\* shows the tier of the kernel's value
C18_Witness ==
  /\ op = "select"
  /\ pc = "ready"
  /\ warnings = <<>>
  /\ sys.rmem # hist.sys0.rmem
  /\ bufferSlider = SliderValue(sys.rmem)
  /\ tcpComboBox = sys.cc

\* C19: every entry of interface_defaults, in every state, already holds the
\* value capture ends with: its power_save key is set, and so are the three
\* flags when the offload read failed.
C19_NoPartialSnapshot ==
  \A i \in DOMAIN interface_defaults :
    /\ "power_save" \in DOMAIN interface_defaults[i]
    /\ i \in hist.readFailed => Flags \subseteq DOMAIN interface_defaults[i]

TogglesShow(d, tso, gso, gro, enabled, checked) ==
  /\ tso <=> ("tso" \in DOMAIN d /\ d["tso"] = "False")
  /\ gso <=> ("gso" \in DOMAIN d /\ d["gso"] = "False")
  /\ gro <=> ("gro" \in DOMAIN d /\ d["gro"] = "False")
  /\ enabled <=> ("power_save" \in DOMAIN d /\ d["power_save"] \in {"True", "False"})
  /\ enabled => (checked <=> d["power_save"] = "False")

\* C21: when a selection of an interface has returned, at startup or from the
\* combo box, first or repeated, the offload check boxes are the negation of
\* the flags of the interface's snapshot and, when the snapshot has a
\* power_save value, the power-save box is its negation.
C21_TogglesFromSnapshot ==
  (op \in {"init", "select"} /\ Selected /\ pc = "ready") =>
    TogglesShow(Snapshot, tsoCheckBox, gsoCheckBox, groCheckBox,
                powerSaveEnabled, powerSaveCheckBox)

\* wlan0 is selected for the second time: its snapshot has GSO off, no GRO
\* flag and power save off
C21_Witness ==
  /\ op = "select"
  /\ pc = "ready"
  /\ hist.wasCached
  /\ current_interface = "wlan0"
  /\ "gro" \notin DOMAIN Snapshot
  /\ gsoCheckBox
  /\ ~groCheckBox
  /\ powerSaveCheckBox

\* C22 as stated: a reset without a failed write leaves the check boxes as the
\* snapshot gives them, the slider at the tier of the kernel's rmem_max and the
\* combo box at the kernel's congestion algorithm; a reset with a failed write
\* leaves every widget as it was.
C22_ResetRederives ==
  [][(op' = "reset" /\ Selected) =>
       IF error_messages' = <<>>
       THEN /\ TogglesShow(Snapshot, tsoCheckBox', gsoCheckBox', groCheckBox',
                           powerSaveEnabled', powerSaveCheckBox')
            /\ bufferSlider' = SliderValue(sys'.rmem)
            /\ tcpComboBox' = sys'.cc
       ELSE widgets' = widgets]_vars

\* C22 as amended: after a reset without a failed write the check boxes are
\* as the snapshot gives them, the slider is the tier of the kernel's rmem_max
\* unless that read failed, and the combo box is the kernel's algorithm unless
\* that read failed or the algorithm is not an item; after a reset with a
\* failed write every widget is as it was.
C22_ResetReloads ==
  [][(op' = "reset" /\ Selected) =>
       IF error_messages' = <<>>
       THEN /\ TogglesShow(Snapshot, tsoCheckBox', gsoCheckBox', groCheckBox',
                           powerSaveEnabled', powerSaveCheckBox')
            /\ bufferSlider' =
                 IF \E n \in DOMAIN warnings' : warnings'[n] = "buffer_read"
                 THEN bufferSlider
                 ELSE SliderValue(sys'.rmem)
            /\ tcpComboBox' =
                 IF (\E n \in DOMAIN warnings' : warnings'[n] = "tcp_read")
                    \/ sys'.cc \notin ComboItems
                 THEN tcpComboBox
                 ELSE sys'.cc
       ELSE widgets' = widgets]_vars

\* a reset went through and restored an algorithm the combo box does not
\* offer: the box still shows the user's choice
C22_Witness ==
  /\ op = "reset"
  /\ Selected
  /\ error_messages = <<>>
  /\ sys.cc = "reno"
  /\ tcpComboBox = "bbr"

\* C23: every offload and power-save write of apply and of reset addresses the
\* selected interface, and no step of apply or reset changes the offload flags
\* or the power save of another interface.
C23_WritesOnSelectedOnly ==
  /\ [](\A n \in DOMAIN writes :
          writes[n].cap \in Flags \cup {"power_save"} =>
            writes[n].iface = current_interface)
  /\ [][op' \in {"apply", "reset"} =>
          \A i \in IfaceNames \ {current_interface'} :
            /\ sys'.offload[i] = sys.offload[i]
            /\ sys'.power[i] = sys.power[i]]_vars

\* apply changed an offload flag of one interface, another interface was
\* selected and reset without error: the first one still has the applied flag
C23_Witness ==
  /\ op = "reset"
  /\ Selected
  /\ error_messages = <<>>
  /\ \E i \in DOMAIN interface_defaults :
       /\ i # current_interface
       /\ sys.offload[i] # hist.sys0.offload[i]

\* C24: with no interface selected, apply and reset show the error box, issue
\* no read and no write, and leave the system, both default dictionaries and
\* every widget as they were.
C24_NoInterfaceNoWrite ==
  /\ []((op \in {"apply", "reset"} /\ ~Selected) =>
          /\ writes = <<>>
          /\ reads = <<>>
          /\ error_messages = <<>>
          /\ warnings = << "no_interface" >>
          /\ available_interfaces = <<>>
          /\ interface_defaults = EmptyDict
          /\ sys = hist.sys0)
  /\ [][(op' \in {"apply", "reset"} /\ ~Selected) =>
          /\ sys' = sys
          /\ interface_defaults' = interface_defaults
          /\ global_defaults' = global_defaults
          /\ widgets' = widgets]_vars

\* the user checked Disable TSO, moved the slider and pressed Apply where no
\* interface was listed
C24_Witness ==
  /\ op = "apply"
  /\ ~Selected
  /\ tsoCheckBox
  /\ bufferSlider = 8
  /\ warnings = << "no_interface" >>
====
